---------------------------- MODULE Spec2Model ----------------------------
(***************************************************************************)
(* Flash-sale inventory: the three purchase handlers (naive,               *)
(* postgres_lock, redis_postgres) of handlers/purchase.go, the /reset and  *)
(* /sync-redis routes of cmd/api/main.go, the products/orders tables of    *)
(* PostgreSQL and the Redis key product:1:stock.                           *)
(*                                                                         *)
(* Every round trip to PostgreSQL or Redis is one atomic step; the Go      *)
(* code between two round trips is local and is folded into the step that  *)
(* precedes it.  A round trip may fail (\E ok \in Outcomes): a failed        *)
(* statement has no effect on the store.                                   *)
(***************************************************************************)
EXTENDS Integers, Sequences, FiniteSets, TLC

\* ------------------------------------------------------------------ bounds
\* The stock the seed and /reset write (100 in the source), scaled down so
\* that exhaustion and overselling are reached.
InitialCapacity == 2
\* Number of handler goroutines that can be in flight at once.
NumProc == 2
\* Number of purchase requests the clients send in one run.
MaxRequests == 3
\* Number of /reset and /sync-redis calls the operator issues.
MaxAdminOps == 1
\* Number of such calls when they are issued between the purchases only.
MaxQuiescentAdminOps == 2
\* Largest number of requests a load-harness run is asked for.
MaxTotal == 3
\* Number of times the server process is started.
MaxStarts == 2
\* Number of GET /stats calls followed.
MaxSnapshots == 1
\* Largest concurrency a load-harness run is configured with.
MaxConcurrency == 2

\* --------------------------------------------------------------- constants
\* The id of the only row of products (SERIAL, first insert; "WHERE id = 1").
SeededProductId == 1
\* The id of the only row of users.
SeededUserId == 1
StockKey == "product:1:stock"

Proc == 1..NumProc
\* product_id values a request may carry: the seeded row and a missing one.
ProductIds == {SeededProductId, SeededProductId + 1}
\* user_id values a request may carry: the test user the seed inserts.
UserIds == {SeededUserId}
\* time.Since(start).Milliseconds() of a successful attempt.
Latencies == {0, 1}

VARIABLES
    quantity,        \* products.quantity of row SeededProductId (committed)
    orders,          \* committed rows of orders, in insertion order
    rowLock,         \* transactions holding the row lock of the product row
    redis,           \* the Redis keyspace: a function from keys to integers
    TotalRequests, SuccessCount, FailCount, OversellCount, TotalLatencyMs,
    pc,              \* per client: position in its handler
    mode,            \* per client: the handler it runs
    req,             \* per client: the bound PurchaseRequest
    qty,             \* per client: local "quantity" (naive, postgres_lock)
    stock,           \* per client: local "stock" (redis_postgres)
    tx,              \* per client: the open transaction and its pending writes
    err,             \* per client: the error message about to be sent
    trace,           \* per client: round trips of the current attempt (history)
    readLog,         \* quantities read FOR UPDATE by committed units (history)
    started,         \* purchase requests received so far (history)
    scenario,        \* TRUE in a load-harness scenario: the harness's request
                     \* body only, and no store round trip fails
    harness,         \* the load harness: its parameters, loop index, phase
                     \* and what became of each request
    afterReset,      \* what /reset left when it returned 200, until the next
                     \* purchase or /sync-redis call (history)
    adminPc, adminOps, adminStock, adminResp,
    beforeReset,     \* what the stores and the counters held when the /reset
                     \* call being handled arrived, kept while no purchase
                     \* overlaps the call (history)
    boot,            \* main(): its position, whether database.Rdb is set,
                     \* the rows of products, and the starts so far
    snapshot,        \* GetStats: its position, the values it has loaded, the
                     \* average it returned, and the calls made so far
    twin             \* a second run of the same schedule whose stats counters
                     \* started from other values: its counters, and the
                     \* step it has to repeat

ledger == <<quantity, orders, rowLock>>
stats == <<TotalRequests, SuccessCount, FailCount, OversellCount, TotalLatencyMs>>
locals == <<pc, mode, req, qty, stock, tx, err, trace>>
admin == <<adminPc, adminOps, adminStock, adminResp>>
history == <<readLog, started, afterReset>>
vars == <<quantity, orders, rowLock, redis,
          TotalRequests, SuccessCount, FailCount, OversellCount, TotalLatencyMs,
          pc, mode, req, qty, stock, tx, err, trace, readLog, started, afterReset, scenario, harness,
          adminPc, adminOps, adminStock, adminResp, twin, snapshot, boot, beforeReset>>

\* ------------------------------------------------------------------ helpers
NoTx == [open |-> FALSE, dec |-> 0, ord |-> <<>>]
\* Round trips of one attempt that took effect: gate decrements, ledger
\* UPDATEs, order INSERTs, compensating INCRs issued, net change made to the
\* Redis key, commits.
NoTrace == [gate |-> 0, ldec |-> 0, ins |-> 0, comp |-> 0, cache |-> 0, commit |-> 0]
NoReq == [valid |-> FALSE, user_id |-> 0, product_id |-> 0]

\* c.ShouldBindJSON: a body that does not bind, or the two int fields.
Requests ==
    {NoReq} \cup
    {[valid |-> TRUE, user_id |-> u, product_id |-> i] : u \in UserIds, i \in ProductIds}

\* The body the load harness posts: product_id 1 and some user_id (no
\* constraint involves orders.user_id, so one user id stands for all).
HarnessRequest == [valid |-> TRUE, user_id |-> SeededUserId, product_id |-> SeededProductId]

\* The requests that arrive, and how a store round trip can end (TRUE: ok).
Incoming == IF scenario THEN {HarnessRequest} ELSE Requests
Outcomes == IF scenario THEN {TRUE} ELSE BOOLEAN

ProductExists(id) == id = SeededProductId

OrderRow(r) == [user_id |-> r.user_id, product_id |-> r.product_id, status |-> "success"]

\* The status code each handler sends with an error message.
HttpCode(e) == IF e \in {"Invalid input", "Out of stock!"} THEN 400 ELSE 500

HasKey(k) == k \in DOMAIN redis
RedisSet(k, v) == [x \in (DOMAIN redis) \cup {k} |-> IF x = k THEN v ELSE redis[x]]
\* Mutant: INCR adds 2.
RedisIncrTwice(k) == RedisSet(k, (IF HasKey(k) THEN redis[k] ELSE 0) + 2)
\* INCR: a missing key counts as 0.
RedisIncr(k) == RedisSet(k, (IF HasKey(k) THEN redis[k] ELSE 0) + 1)
RedisDecr(k) == RedisSet(k, (IF HasKey(k) THEN redis[k] ELSE 0) - 1)

Set(f, p, v) == [f EXCEPT ![p] = v]

Max(a, b) == IF a >= b THEN a ELSE b

\* ----------------------------------------------------------- load harness
\* The requests of a run, numbered from 1.
Tasks(n) == 1..n

\* What the concurrency input can hold: any integer the operator types.
Concurrencies == (-1)..MaxConcurrency

\* No load-harness run.
NoRun == [kind |-> "none", n |-> 0, c |-> 0, i |-> 0, phase |-> "done",
          status |-> <<>>, sent |-> <<>>, batch |-> {}, report |-> <<>>]

\* A run about to start: requested total n, configured concurrency c.
NewRun(k, n, c) ==
    [kind |-> k, n |-> n, c |-> c, i |-> 0, phase |-> "loop",
     status |-> [t \in Tasks(n) |-> "new"], sent |-> [t \in Tasks(n) |-> 0],
     batch |-> {}, report |-> <<>>]

\* scripts/attack.go takes no parameter: totalRequests := 500.
AttackRequests == MaxTotal

\* The dashboard's runAttack with any inputs, or scripts/attack.go (which
\* reads no concurrency).
HarnessRuns ==
    {NewRun("dashboard", n, c) : n \in 0..MaxTotal, c \in Concurrencies}
        \cup {NewRun("attack", AttackRequests, c) : c \in Concurrencies}

\* ------------------------------------------------------------------ stats
\* GetStats is not running and has returned nothing yet.
NoSnapshot == [pc |-> "idle", total |-> 0, success |-> 0, fail |-> 0,
               oversell |-> 0, latency |-> 0, avg |-> <<0, 1>>, calls |-> 0]

RECURSIVE Gcd(_, _)
Gcd(a, b) == IF b = 0 THEN a ELSE Gcd(b, a % b)

\* float64(a) / float64(b) for b > 0, as the fraction in lowest terms (the
\* counters stay far below 2^53, where the conversions are exact).
Quotient(a, b) == <<a \div Gcd(a, b), b \div Gcd(a, b)>>

\* Mutant: the division is made on the integers.
AvgLatencyIntegerDivision(total, latency) ==
    IF total > 0 THEN <<latency \div total, 1>> ELSE <<0, 1>>

\* avgLatency := float64(0); if total > 0 { avgLatency = latency / total }
AvgLatency(total, latency) ==
    IF total > 0 THEN Quotient(latency, total) ELSE <<0, 1>>

\* ------------------------------------------------------------- second run
\* No second run is followed.
NoTwin == [phase |-> "off", pre |-> <<>>, target |-> <<>>, other |-> <<>>]

\* What two runs of one schedule share when the stats counters are not read:
\* the ledger, the cache, and each handler's position, locals and response.
Shared == <<quantity, orders, rowLock, redis, pc, mode, req, qty, stock, tx,
            err, trace, readLog, started>>

\* Values the five counters can hold when a run starts (total, success,
\* fail, oversell, latency), after earlier purchases.
StatsValues == {<<1, 0, 1, 0, 0>>, <<2, 1, 1, 0, 1>>}

\* ------------------------------------------------------------------- Init
\* main() has reached r.Run: the routes are served.
Serving == [pc |-> "serving", rdb |-> TRUE, products |-> 1, starts |-> 1]

\* No order, no lock, zero counters, no request being handled.
InitHandlers ==
    /\ orders = <<>>
    /\ rowLock = {}
    /\ TotalRequests = 0 /\ SuccessCount = 0 /\ FailCount = 0
    /\ OversellCount = 0 /\ TotalLatencyMs = 0
    /\ pc = [p \in Proc |-> "idle"]
    /\ mode = [p \in Proc |-> "none"]
    /\ req = [p \in Proc |-> NoReq]
    /\ qty = [p \in Proc |-> 0]
    /\ stock = [p \in Proc |-> 0]
    /\ tx = [p \in Proc |-> NoTx]
    /\ err = [p \in Proc |-> ""]
    /\ trace = [p \in Proc |-> NoTrace]
    /\ readLog = <<>>
    /\ started = 0
    /\ afterReset = <<>>
    /\ beforeReset = <<>>
    /\ adminPc = "idle" /\ adminOps = 0 /\ adminStock = 0 /\ adminResp = 0
    /\ snapshot = NoSnapshot

\* The server once it serves, with the seeded product row, but for the
\* Redis keyspace.
InitServer ==
    /\ quantity = InitialCapacity
    /\ boot = Serving
    /\ InitHandlers

\* Everything but the Redis keyspace, with no load harness running.
InitRest ==
    /\ harness = NoRun
    /\ twin = NoTwin
    /\ InitServer

SeededCache == [k \in {StockKey} |-> InitialCapacity]
EmptyCache == [k \in {} |-> 0]

\* The server serves: the product row holds 100; the Redis key holds 100
\* (written by /reset or /sync-redis of an earlier run), or is missing: the
\* seed does not write it.
Init == InitRest /\ redis \in {SeededCache, EmptyCache} /\ scenario = FALSE

\* The state /reset leaves: stock 100 in both stores, no orders, zero stats.
InitReset == InitRest /\ redis = SeededCache /\ scenario = FALSE

\* The reset state at the start of a load-harness scenario.
InitScenario == InitRest /\ redis = SeededCache /\ scenario = TRUE

\* A load-harness run about to start against the reset state.
InitHarness ==
    /\ InitServer /\ redis = SeededCache /\ scenario = TRUE
    /\ harness \in HarnessRuns
    /\ twin = NoTwin

\* main() is started on fresh stores: no table, no key.
InitFresh ==
    /\ quantity = 0
    /\ boot = [pc |-> "ConnectDB", rdb |-> FALSE, products |-> 0, starts |-> 1]
    /\ InitHandlers
    /\ redis = EmptyCache /\ scenario = FALSE
    /\ harness = NoRun /\ twin = NoTwin

\* The dashboard is about to send MaxRequests requests, at most c at a time,
\* to the server in the reset state.
InitNaiveBatched ==
    /\ InitServer /\ redis = SeededCache /\ scenario = FALSE /\ twin = NoTwin
    /\ \E c \in 1..NumProc : harness = NewRun("dashboard", MaxRequests, c)

\* Two runs from the reset state of the stores, the second one with other
\* values in its stats counters.
InitTwin ==
    /\ InitServer /\ redis = SeededCache /\ scenario = FALSE
    /\ harness = NoRun
    /\ \E o \in StatsValues :
        twin = [phase |-> "lead", pre |-> Shared, target |-> <<>>, other |-> o]

\* ------------------------------------------------------- shared handler steps
\* Mutant: the result of c.ShouldBindJSON is not tested.
StartWithoutValidation(p, m, first) ==
    /\ pc[p] = "idle"
    /\ started < MaxRequests
    /\ started' = started + 1
    /\ afterReset' = <<>> /\ beforeReset' = <<>>
    /\ \E r \in Incoming : req' = Set(req, p, r)
    /\ pc' = Set(pc, p, first)
    /\ err' = Set(err, p, "")
    /\ TotalRequests' = TotalRequests + 1
    /\ mode' = Set(mode, p, m)
    /\ UNCHANGED <<ledger, redis, SuccessCount, FailCount, OversellCount,
                   TotalLatencyMs, qty, stock, tx, trace, readLog, admin,
                   scenario, harness, twin, snapshot, boot>>

\* atomic.AddInt64(&TotalRequests, 1); c.ShouldBindJSON(&req)
Start(p, m, first) ==
    /\ pc[p] = "idle"
    /\ started < MaxRequests
    /\ started' = started + 1
    /\ afterReset' = <<>> /\ beforeReset' = <<>>
    /\ \E r \in Incoming :
        /\ req' = Set(req, p, r)
        /\ pc' = Set(pc, p, IF r.valid THEN first ELSE "fail")
        /\ err' = Set(err, p, IF r.valid THEN "" ELSE "Invalid input")
    /\ TotalRequests' = TotalRequests + 1
    /\ mode' = Set(mode, p, m)
    /\ UNCHANGED <<ledger, redis, SuccessCount, FailCount, OversellCount,
                   TotalLatencyMs, qty, stock, tx, trace, readLog, admin,
                   scenario, harness, twin, snapshot, boot>>

\* Mutant: a failed step sends the handler back to its first step.
FailRestarts(p, e) ==
    /\ pc' = Set(pc, p, IF mode[p] = "naive" THEN "n_select"
                        ELSE IF mode[p] = "postgres_lock" THEN "l_begin"
                        ELSE "g_eval")
    /\ err' = Set(err, p, e)

\* A step fails: remember the message, go and count the failure.
Fail(p, e) ==
    /\ pc' = Set(pc, p, "fail")
    /\ err' = Set(err, p, e)

\* The handler returns: its locals are gone (a deferred call may remain).
Return(p, next) ==
    /\ pc' = Set(pc, p, next)
    /\ mode' = Set(mode, p, "none")
    /\ req' = Set(req, p, NoReq)
    /\ qty' = Set(qty, p, 0)
    /\ stock' = Set(stock, p, 0)
    /\ err' = Set(err, p, "")
    /\ trace' = Set(trace, p, NoTrace)

\* What c.JSON sends: the error with its status code, or 200.
Response(p) ==
    IF pc[p] = "fail" THEN [code |-> HttpCode(err[p]), body |-> err[p]]
    ELSE IF pc[p] = "success" THEN [code |-> 200, body |-> "Purchase successful!"]
    ELSE [code |-> 0, body |-> ""]

\* Mutant: a failure is counted twice.
RecordFailureTwice(p) ==
    /\ pc[p] = "fail"
    /\ FailCount' = FailCount + 2
    /\ Return(p, IF tx[p].open THEN "rollback" ELSE "idle")
    /\ UNCHANGED <<ledger, redis, TotalRequests, SuccessCount, OversellCount,
                   TotalLatencyMs, tx, history, admin, scenario, harness, twin,
                   snapshot, boot, beforeReset>>

\* atomic.AddInt64(&FailCount, 1); c.JSON(4xx/5xx, error); return
\* (a deferred tx.Rollback, if any, runs after the return statement).
RecordFailure(p) ==
    /\ pc[p] = "fail"
    /\ FailCount' = FailCount + 1
    /\ Return(p, IF tx[p].open THEN "rollback" ELSE "idle")
    /\ UNCHANGED <<ledger, redis, TotalRequests, SuccessCount, OversellCount,
                   TotalLatencyMs, tx, history, admin, scenario, harness, twin, snapshot, boot, beforeReset>>

\* Mutant: a success beyond the initial capacity is counted as an oversell.
RecordSuccessCountsOversell(p) ==
    /\ pc[p] = "success"
    /\ SuccessCount' = SuccessCount + 1
    /\ OversellCount' = IF Len(orders) > InitialCapacity THEN OversellCount + 1
                                                          ELSE OversellCount
    /\ \E l \in Latencies : TotalLatencyMs' = TotalLatencyMs + l
    /\ Return(p, "idle")
    /\ UNCHANGED <<ledger, redis, TotalRequests, FailCount,
                   tx, history, admin, scenario, harness, twin, snapshot, boot,
                   beforeReset>>

\* atomic.AddInt64(&SuccessCount, 1); atomic.AddInt64(&TotalLatencyMs, ...);
\* c.JSON(200, ...)
RecordSuccess(p) ==
    /\ pc[p] = "success"
    /\ SuccessCount' = SuccessCount + 1
    /\ \E l \in Latencies : TotalLatencyMs' = TotalLatencyMs + l
    /\ Return(p, "idle")
    /\ UNCHANGED <<ledger, redis, TotalRequests, FailCount, OversellCount,
                   tx, history, admin, scenario, harness, twin, snapshot, boot, beforeReset>>

\* Mutant: the deferred rollback ends the transaction but keeps the row lock.
RollbackKeepsLock(p) ==
    /\ pc[p] = "rollback"
    /\ tx' = Set(tx, p, NoTx)
    /\ Return(p, "idle")
    /\ UNCHANGED <<quantity, orders, rowLock, redis, stats, history, admin,
                   scenario, harness, twin, snapshot, boot, beforeReset>>

\* defer tx.Rollback(...): discards the pending writes, releases the row lock.
Rollback(p) ==
    /\ pc[p] = "rollback"
    /\ tx' = Set(tx, p, NoTx)
    /\ rowLock' = rowLock \ {p}
    /\ Return(p, "idle")
    /\ UNCHANGED <<quantity, orders, redis, stats, history, admin, scenario, harness, twin, snapshot, boot, beforeReset>>

\* ------------------------------------------------------------ PostgreSQL
\* Mutant: the row lock is not enforced (a plain SELECT instead of FOR UPDATE).
RowLockNotEnforced(p) == TRUE

\* A row lock is granted only when no other transaction holds it.
RowLockFree(p) == rowLock \subseteq {p}

\* Mutant: the stock test is off by one ("if quantity < 0").
OutOfStockOffByOne(q) == q < 0

\* Mutant: the stock test also refuses once SuccessCount reached the capacity.
OutOfStockReadsSuccessCount(q) == q <= 0 \/ SuccessCount >= InitialCapacity

\* "if quantity <= 0" of PurchaseNaive and PurchasePostgresLock.
OutOfStock(q) == q <= 0

\* Mutant: the order row is not part of the unit of work that commits.
CommittedOrdersWithoutInsert(p) == orders

\* tx.Commit succeeded: the pending writes of p become the committed state.
CommittedQuantity(p) == quantity - tx[p].dec
CommittedOrders(p) == orders \o tx[p].ord

\* ------------------------------------------------- MODE 1: PurchaseNaive
NaiveStart(p) == Start(p, "naive", "n_select")

\* SELECT quantity FROM products WHERE id=$1 (no lock), then the stock test.
NaiveSelect(p) ==
    /\ pc[p] = "n_select"
    /\ \E ok \in Outcomes :
        IF ~ok \/ ~ProductExists(req[p].product_id)
        THEN Fail(p, "DB error") /\ UNCHANGED qty
        ELSE /\ qty' = Set(qty, p, quantity)
             /\ IF OutOfStock(quantity)
                THEN Fail(p, "Out of stock!")
                ELSE pc' = Set(pc, p, "n_update") /\ UNCHANGED err
    /\ UNCHANGED <<ledger, redis, stats, mode, req, stock, tx, trace,
                   history, admin, scenario, harness, twin, snapshot, boot, beforeReset>>

\* time.Sleep(5ms), then UPDATE products SET quantity = quantity - 1
\* (autocommit: waits for the row lock, writes, commits).
NaiveUpdate(p) ==
    /\ pc[p] = "n_update"
    /\ \E ok \in Outcomes :
        IF ~ok
        THEN Fail(p, "Update failed") /\ UNCHANGED <<quantity, trace>>
        ELSE /\ RowLockFree(p)
             /\ quantity' = quantity - 1
             /\ trace' = Set(trace, p, [trace[p] EXCEPT !.ldec = @ + 1])
             /\ pc' = Set(pc, p, "n_insert") /\ UNCHANGED err
    /\ UNCHANGED <<orders, rowLock, redis, stats, mode, req, qty, stock, tx,
                   history, admin, scenario, harness, twin, snapshot, boot, beforeReset>>

\* INSERT INTO orders ... 'success' (autocommit).
NaiveInsert(p) ==
    /\ pc[p] = "n_insert"
    /\ \E ok \in Outcomes :
        IF ~ok \/ ~ProductExists(req[p].product_id)
        THEN Fail(p, "Order failed") /\ UNCHANGED <<orders, trace>>
        ELSE /\ orders' = Append(orders, OrderRow(req[p]))
             /\ trace' = Set(trace, p, [trace[p] EXCEPT !.ins = @ + 1])
             /\ pc' = Set(pc, p, "success") /\ UNCHANGED err
    /\ UNCHANGED <<quantity, rowLock, redis, stats, mode, req, qty, stock, tx,
                   history, admin, scenario, harness, twin, snapshot, boot, beforeReset>>

Naive(p) ==
    \/ NaiveStart(p)
    \/ NaiveSelect(p)
    \/ NaiveUpdate(p)
    \/ NaiveInsert(p)

\* ------------------------------------------ MODE 2: PurchasePostgresLock
LockStart(p) == Start(p, "postgres_lock", "l_begin")

\* database.DB.Begin
LockBegin(p) ==
    /\ pc[p] = "l_begin"
    /\ \E ok \in Outcomes :
        IF ~ok
        THEN Fail(p, "Transaction failed") /\ UNCHANGED tx
        ELSE /\ tx' = Set(tx, p, [NoTx EXCEPT !.open = TRUE])
             /\ pc' = Set(pc, p, "l_select") /\ UNCHANGED err
    /\ UNCHANGED <<ledger, redis, stats, mode, req, qty, stock, trace,
                   history, admin, scenario, harness, twin, snapshot, boot, beforeReset>>

\* SELECT quantity ... FOR UPDATE: waits for the row lock, takes it, reads
\* the committed quantity; then the stock test.
LockSelect(p) ==
    /\ pc[p] = "l_select"
    /\ \E ok \in Outcomes :
        IF ~ok \/ ~ProductExists(req[p].product_id)
        THEN Fail(p, "Lock failed") /\ UNCHANGED <<qty, rowLock>>
        ELSE /\ RowLockFree(p)
             /\ rowLock' = rowLock \cup {p}
             /\ qty' = Set(qty, p, quantity)
             /\ IF OutOfStock(quantity)
                THEN Fail(p, "Out of stock!")
                ELSE pc' = Set(pc, p, "l_update") /\ UNCHANGED err
    /\ UNCHANGED <<quantity, orders, redis, stats, mode, req, stock, tx, trace, history, admin,
                   scenario, harness, twin, snapshot, boot, beforeReset>>

\* tx.Exec(UPDATE products SET quantity = quantity - 1)
LockUpdate(p) ==
    /\ pc[p] = "l_update"
    /\ \E ok \in Outcomes :
        IF ~ok
        THEN Fail(p, "Update failed") /\ UNCHANGED <<tx, trace>>
        ELSE /\ tx' = Set(tx, p, [tx[p] EXCEPT !.dec = @ + 1])
             /\ trace' = Set(trace, p, [trace[p] EXCEPT !.ldec = @ + 1])
             /\ pc' = Set(pc, p, "l_insert") /\ UNCHANGED err
    /\ UNCHANGED <<ledger, redis, stats, mode, req, qty, stock, history,
                   admin, scenario, harness, twin, snapshot, boot, beforeReset>>

\* tx.Exec(INSERT INTO orders ...)
LockInsert(p) ==
    /\ pc[p] = "l_insert"
    /\ \E ok \in Outcomes :
        IF ~ok
        THEN Fail(p, "Order failed") /\ UNCHANGED <<tx, trace>>
        ELSE /\ tx' = Set(tx, p, [tx[p] EXCEPT !.ord = Append(@, OrderRow(req[p]))])
             /\ trace' = Set(trace, p, [trace[p] EXCEPT !.ins = @ + 1])
             /\ pc' = Set(pc, p, "l_commit") /\ UNCHANGED err
    /\ UNCHANGED <<ledger, redis, stats, mode, req, qty, stock, history,
                   admin, scenario, harness, twin, snapshot, boot, beforeReset>>

\* tx.Commit: either way the transaction ends and the row lock is released.
LockCommit(p) ==
    /\ pc[p] = "l_commit"
    /\ \E ok \in Outcomes :
        IF ~ok
        THEN Fail(p, "Commit failed") /\ UNCHANGED <<quantity, orders, readLog, trace>>
        ELSE /\ quantity' = CommittedQuantity(p)
             /\ orders' = CommittedOrders(p)
             /\ trace' = Set(trace, p, [trace[p] EXCEPT !.commit = @ + 1])
             /\ readLog' = Append(readLog, qty[p])
             /\ pc' = Set(pc, p, "success") /\ UNCHANGED err
    /\ tx' = Set(tx, p, NoTx)
    /\ rowLock' = rowLock \ {p}
    /\ UNCHANGED <<redis, stats, mode, req, qty, stock, started, afterReset, admin,
                   scenario, harness, twin, snapshot, boot, beforeReset>>

Locked(p) ==
    \/ LockStart(p)
    \/ LockBegin(p)
    \/ LockSelect(p)
    \/ LockUpdate(p)
    \/ LockInsert(p)
    \/ LockCommit(p)

\* ------------------------------------------------------------------ Redis
\* Mutant: the script tests "stock < 0" instead of "stock <= 0".
LuaScriptOffByOne(k) ==
    IF ~HasKey(k) THEN [ret |-> -1, db |-> redis]
    ELSE IF redis[k] < 0 THEN [ret |-> -1, db |-> redis]
    ELSE [ret |-> redis[k] - 1, db |-> RedisDecr(k)]

\* Mutant: the script tests the stock and returns it without the DECR.
LuaScriptWithoutDecr(k) ==
    IF ~HasKey(k) THEN [ret |-> -1, db |-> redis]
    ELSE IF redis[k] <= 0 THEN [ret |-> -1, db |-> redis]
    ELSE [ret |-> redis[k], db |-> redis]

\* Mutant: a plain DECR with no test.
LuaScriptPlainDecr(k) ==
    [ret |-> (IF HasKey(k) THEN redis[k] ELSE 0) - 1, db |-> RedisDecr(k)]

\* The Lua script of PurchaseRedisPostgres, run by Redis as one command:
\* GET; -1 when the key is missing or its value is <= 0; else DECR.
\* Yields the value returned and the keyspace left.
LuaScript(k) ==
    IF ~HasKey(k) THEN [ret |-> -1, db |-> redis]
    ELSE IF redis[k] <= 0 THEN [ret |-> -1, db |-> redis]
    ELSE [ret |-> redis[k] - 1, db |-> RedisDecr(k)]

\* ----------------------------------------- MODE 3: PurchaseRedisPostgres
GateStart(p) == Start(p, "redis_postgres", "g_eval")

\* database.Rdb.Eval(luaScript, "product:1:stock"), then "if stock < 0".
GateEval(p) ==
    /\ pc[p] = "g_eval"
    /\ \E ok \in Outcomes :
        IF ~ok
        THEN Fail(p, "Redis error") /\ UNCHANGED <<redis, stock, trace>>
        ELSE LET r == LuaScript(StockKey) IN
             /\ redis' = r.db
             /\ stock' = Set(stock, p, r.ret)
             /\ IF r.ret < 0
                THEN Fail(p, "Out of stock!") /\ UNCHANGED trace
                ELSE /\ pc' = Set(pc, p, "g_begin") /\ UNCHANGED err
                     /\ trace' = Set(trace, p, [trace[p] EXCEPT !.gate = @ + 1,
                                                                !.cache = @ - 1])
    /\ UNCHANGED <<ledger, stats, mode, req, qty, tx, history, admin, scenario, harness, twin, snapshot, boot, beforeReset>>

\* Mutant: the failure path forgets the compensating INCR.
CompensateForgotten(p, e) ==
    /\ pc' = Set(pc, p, "fail")
    /\ err' = Set(err, p, e)

\* A ledger step failed after the gate: remember the message, go and
\* compensate.
Compensate(p, e) ==
    /\ pc' = Set(pc, p, "g_comp")
    /\ err' = Set(err, p, e)

\* database.DB.Begin
GateBegin(p) ==
    /\ pc[p] = "g_begin"
    /\ \E ok \in Outcomes :
        IF ~ok
        THEN Compensate(p, "Transaction failed") /\ UNCHANGED tx
        ELSE /\ tx' = Set(tx, p, [NoTx EXCEPT !.open = TRUE])
             /\ pc' = Set(pc, p, "g_update") /\ UNCHANGED err
    /\ UNCHANGED <<ledger, redis, stats, mode, req, qty, stock, trace,
                   history, admin, scenario, harness, twin, snapshot, boot, beforeReset>>

\* tx.Exec(UPDATE products SET quantity = quantity - 1 WHERE id=$1): takes
\* the row lock of the row it updates; updates no row when the id is unknown.
GateUpdate(p) ==
    /\ pc[p] = "g_update"
    /\ \E ok \in Outcomes :
        IF ~ok
        THEN Compensate(p, "Update failed") /\ UNCHANGED <<tx, trace, rowLock>>
        ELSE /\ pc' = Set(pc, p, "g_insert") /\ UNCHANGED err
             /\ IF ProductExists(req[p].product_id)
                THEN /\ RowLockFree(p)
                     /\ rowLock' = rowLock \cup {p}
                     /\ tx' = Set(tx, p, [tx[p] EXCEPT !.dec = @ + 1])
                     /\ trace' = Set(trace, p, [trace[p] EXCEPT !.ldec = @ + 1])
                ELSE UNCHANGED <<tx, trace, rowLock>>
    /\ UNCHANGED <<quantity, orders, redis, stats, mode, req, qty, stock, history, admin,
                   scenario, harness, twin, snapshot, boot, beforeReset>>

\* tx.Exec(INSERT INTO orders ...): product_id REFERENCES products(id).
GateInsert(p) ==
    /\ pc[p] = "g_insert"
    /\ \E ok \in Outcomes :
        IF ~ok \/ ~ProductExists(req[p].product_id)
        THEN Compensate(p, "Order failed") /\ UNCHANGED <<tx, trace>>
        ELSE /\ tx' = Set(tx, p, [tx[p] EXCEPT !.ord = Append(@, OrderRow(req[p]))])
             /\ trace' = Set(trace, p, [trace[p] EXCEPT !.ins = @ + 1])
             /\ pc' = Set(pc, p, "g_commit") /\ UNCHANGED err
    /\ UNCHANGED <<ledger, redis, stats, mode, req, qty, stock, history,
                   admin, scenario, harness, twin, snapshot, boot, beforeReset>>

\* tx.Commit: either way the transaction ends and the row lock is released.
GateCommit(p) ==
    /\ pc[p] = "g_commit"
    /\ \E ok \in Outcomes :
        IF ~ok
        THEN Compensate(p, "Commit failed") /\ UNCHANGED <<quantity, orders, trace>>
        ELSE /\ quantity' = CommittedQuantity(p)
             /\ orders' = CommittedOrders(p)
             /\ trace' = Set(trace, p, [trace[p] EXCEPT !.commit = @ + 1])
             /\ pc' = Set(pc, p, "success") /\ UNCHANGED err
    /\ tx' = Set(tx, p, NoTx)
    /\ rowLock' = rowLock \ {p}
    /\ UNCHANGED <<redis, stats, mode, req, qty, stock, history, admin,
                   scenario, harness, twin, snapshot, boot, beforeReset>>

\* database.Rdb.Incr("product:1:stock") // Compensate.  Its error is dropped.
GateCompensate(p) ==
    /\ pc[p] = "g_comp"
    /\ \E ok \in Outcomes :
        /\ redis' = IF ok THEN RedisIncr(StockKey) ELSE redis
        /\ trace' = Set(trace, p, [trace[p] EXCEPT !.comp = @ + 1,
                                   !.cache = IF ok THEN @ + 1 ELSE @])
    /\ pc' = Set(pc, p, "fail")
    /\ UNCHANGED <<ledger, stats, mode, req, qty, stock, tx, err, history, admin,
                   scenario, harness, twin, snapshot, boot, beforeReset>>

Gated(p) ==
    \/ GateStart(p)
    \/ GateEval(p)
    \/ GateBegin(p)
    \/ GateUpdate(p)
    \/ GateInsert(p)
    \/ GateCommit(p)
    \/ GateCompensate(p)

\* ------------------------------------------------- /reset and /sync-redis
\* No purchase handler is running.
NoAttemptInFlight == \A p \in Proc : pc[p] = "idle"

\* The purchase handlers that are running.
Running == {p \in Proc : pc[p] # "idle"}

\* Every request of the run has been sent and answered.
AllFinished == started = MaxRequests /\ NoAttemptInFlight

\* What GET /stats and the two stores show.
Observable == [quantity |-> quantity, orders |-> orders, redis |-> redis, stats |-> stats]

\* The operator calls POST /reset or POST /sync-redis (at most n calls).
AdminStartUpTo(n) ==
    /\ adminPc = "idle"
    /\ adminOps < n
    /\ adminOps' = adminOps + 1
    /\ adminPc' \in {"r_update", "s_select"}
    /\ adminStock' = 0
    /\ adminResp' = 0
    /\ afterReset' = IF adminPc' = "r_update" THEN afterReset ELSE <<>>
    /\ beforeReset' = IF adminPc' = "r_update" /\ NoAttemptInFlight
                        THEN <<Observable>> ELSE <<>>
    /\ UNCHANGED <<ledger, redis, stats, locals, readLog, started, scenario, harness,
                   twin, snapshot, boot>>

AdminStart == AdminStartUpTo(MaxAdminOps)

\* UPDATE products SET quantity = 100 WHERE id = 1 (autocommit: waits for
\* the row lock).
ResetUpdate ==
    /\ adminPc = "r_update"
    /\ \E ok \in Outcomes :
        IF ~ok
        THEN /\ adminPc' = "idle" /\ adminResp' = 500
             /\ afterReset' = <<>> /\ beforeReset' = <<>> /\ UNCHANGED quantity
        ELSE /\ rowLock = {}
             /\ quantity' = InitialCapacity
             /\ adminPc' = "r_delete"
             /\ UNCHANGED <<adminResp, afterReset, beforeReset>>
    /\ UNCHANGED <<orders, rowLock, redis, stats, locals, readLog, started, adminOps,
                   adminStock, scenario, harness, twin, snapshot, boot>>

\* database.DB.Exec(c, "DELETE FROM orders"): its error is dropped.
ResetDelete ==
    /\ adminPc = "r_delete"
    /\ \E ok \in Outcomes : orders' = IF ok THEN <<>> ELSE orders
    /\ adminPc' = "r_set"
    /\ UNCHANGED <<quantity, rowLock, redis, stats, locals, history, adminOps,
                   adminStock, adminResp, scenario, harness, twin, snapshot, boot, beforeReset>>

\* database.Rdb.Set(c, "product:1:stock", 100, 0)
ResetSet ==
    /\ adminPc = "r_set"
    /\ \E ok \in Outcomes :
        IF ~ok
        THEN /\ adminPc' = "idle" /\ adminResp' = 500
             /\ afterReset' = <<>> /\ beforeReset' = <<>> /\ UNCHANGED redis
        ELSE /\ redis' = RedisSet(StockKey, InitialCapacity)
             /\ adminPc' = "r_stats"
             /\ UNCHANGED <<adminResp, afterReset, beforeReset>>
    /\ UNCHANGED <<ledger, stats, locals, readLog, started, adminOps, adminStock,
                   scenario, harness, twin, snapshot, boot>>

\* handlers.ResetStats(); c.JSON(200, ...)
ResetStats ==
    /\ adminPc = "r_stats"
    /\ TotalRequests' = 0 /\ SuccessCount' = 0 /\ FailCount' = 0
    /\ OversellCount' = 0 /\ TotalLatencyMs' = 0
    /\ adminPc' = "idle" /\ adminResp' = 200
    /\ beforeReset' = <<>>
    /\ UNCHANGED <<ledger, redis, locals, readLog, started, adminOps, adminStock,
                   scenario, harness, twin, snapshot, boot>>
    /\ afterReset' = IF NoAttemptInFlight THEN <<Observable'>> ELSE <<>>

\* Mutant: the quantity read is copied without the clamp.
ClampForgotten(q) == q

\* "if dbStock < 0 { dbStock = 0 }"
Clamp(q) == IF q < 0 THEN 0 ELSE q

\* SELECT quantity FROM products WHERE id=1, then the clamp.
SyncSelect ==
    /\ adminPc = "s_select"
    /\ \E ok \in Outcomes :
        IF ~ok
        THEN adminPc' = "idle" /\ adminResp' = 500 /\ UNCHANGED adminStock
        ELSE /\ adminStock' = Clamp(quantity)
             /\ adminPc' = "s_set" /\ UNCHANGED adminResp
    /\ UNCHANGED <<ledger, redis, stats, locals, history, adminOps, scenario, harness, twin, snapshot, boot, beforeReset>>

\* database.Rdb.Set(c, "product:1:stock", dbStock, 0); c.JSON(200, ...)
SyncSet ==
    /\ adminPc = "s_set"
    /\ \E ok \in Outcomes :
        IF ~ok
        THEN adminResp' = 500 /\ UNCHANGED redis
        ELSE redis' = RedisSet(StockKey, adminStock) /\ adminResp' = 200
    /\ adminPc' = "idle"
    /\ UNCHANGED <<ledger, stats, locals, history, adminOps, adminStock,
                   scenario, harness, twin, snapshot, boot, beforeReset>>

Reset == ResetUpdate \/ ResetDelete \/ ResetSet \/ ResetStats
SyncRedis == SyncSelect \/ SyncSet

\* ------------------------------------------- load harness: the two drivers
\* The server's variables, which the harness does not hold.
server == <<ledger, redis, stats, locals, history, admin, scenario, twin, snapshot,
            boot, beforeReset>>

\* Array.prototype.slice(a, b) on n tasks: a negative index counts from the
\* end; the result is empty when the start is not before the end.
SliceIndex(a, n) == IF a < 0 THEN (IF n + a < 0 THEN 0 ELSE n + a)
                             ELSE (IF a > n THEN n ELSE a)
Slice(a, b, n) == {t \in Tasks(n) : SliceIndex(a, n) < t /\ t <= SliceIndex(b, n)}

\* "i += batchSize". Every index <= -n selects the empty slice, so the model
\* stops counting down at -(MaxTotal + 1).
NextIndex(i, c) == IF i + c < -(MaxTotal + 1) THEN -(MaxTotal + 1) ELSE i + c

\* t() for every task of the set: the request is sent.
Dispatch(ts) ==
    [harness EXCEPT
        !.status = [t \in Tasks(harness.n) |-> IF t \in ts THEN "flying" ELSE @[t]],
        !.sent = [t \in Tasks(harness.n) |-> IF t \in ts THEN @[t] + 1 ELSE @[t]]]

\* runBatch: "for (let i = 0; i < tasks.length; i += batchSize)" calls every
\* task of tasks.slice(i, i + batchSize) and awaits Promise.all of them.
DashboardBatch ==
    /\ harness.kind = "dashboard" /\ harness.phase = "loop"
    /\ harness.i < harness.n
    /\ LET ts == Slice(harness.i, harness.i + harness.c, harness.n)
       IN harness' = [Dispatch(ts) EXCEPT !.phase = "await", !.batch = ts]
    /\ UNCHANGED server

\* Promise.all resolves when every request of the batch has been answered.
DashboardAwait ==
    /\ harness.kind = "dashboard" /\ harness.phase = "await"
    /\ \A t \in harness.batch : harness.status[t] = "done"
    /\ harness' = [harness EXCEPT !.phase = "loop", !.batch = {},
                                  !.i = NextIndex(harness.i, harness.c)]
    /\ UNCHANGED server

\* The loop ends; the harness goes on to re-read /stats.
DashboardDone ==
    /\ harness.kind = "dashboard" /\ harness.phase = "loop"
    /\ harness.i >= harness.n
    /\ harness' = [harness EXCEPT !.phase = "done"]
    /\ UNCHANGED server

\* attack.go: "for i := 0; i < totalRequests; i++ { go func(userID int) ... }"
\* starts one goroutine per iteration without waiting for any.
AttackLaunch ==
    /\ harness.kind = "attack" /\ harness.phase = "loop"
    /\ harness.i < harness.n
    /\ harness' = [Dispatch({harness.i + 1}) EXCEPT !.i = harness.i + 1]
    /\ UNCHANGED server

\* The loop ends: wg.Wait()
AttackLoopEnd ==
    /\ harness.kind = "attack" /\ harness.phase = "loop"
    /\ harness.i >= harness.n
    /\ harness' = [harness EXCEPT !.phase = "await"]
    /\ UNCHANGED server

\* wg.Wait() returns when every goroutine has called wg.Done().
AttackWait ==
    /\ harness.kind = "attack" /\ harness.phase = "await"
    /\ \A t \in Tasks(harness.n) : harness.status[t] = "done"
    /\ harness' = [harness EXCEPT !.phase = "done"]
    /\ UNCHANGED server

\* A request is answered (or fails): the promise settles, the goroutine ends.
Answer(t) ==
    /\ harness.status[t] = "flying"
    /\ harness' = [harness EXCEPT !.status[t] = "done"]
    /\ UNCHANGED server

\* GET /stats: db_stock and order_count; the errors of both queries are
\* dropped, so a failed query leaves the zero value.
StatsBody(okStock, okCount) ==
    [db_stock |-> IF okStock THEN quantity ELSE 0,
     order_count |-> IF okCount THEN Len(orders) ELSE 0]

\* runAttack after the batches: oversellAmount, dbStockNegative and
\* totalOversells, with initialStock = 100.
TotalOversells(freshStats) ==
    LET oversellAmount == IF freshStats.order_count > InitialCapacity
                          THEN freshStats.order_count - InitialCapacity ELSE 0
        dbStockNegative == IF freshStats.db_stock < 0 THEN -freshStats.db_stock ELSE 0
    IN Max(oversellAmount, dbStockNegative)

\* The dashboard re-reads /stats and records the result of the run
\* (scripts/attack.go reports nothing).
DashboardReport ==
    /\ harness.kind # "attack" /\ harness.phase = "done"
    /\ harness.report = <<>>
    /\ \E okStock, okCount \in Outcomes :
        harness' = [harness EXCEPT
                       !.report = <<TotalOversells(StatsBody(okStock, okCount))>>]
    /\ UNCHANGED server

NextHarness ==
    \/ DashboardBatch \/ DashboardAwait \/ DashboardDone \/ DashboardReport
    \/ AttackLaunch \/ AttackLoopEnd \/ AttackWait
    \/ \E t \in Tasks(harness.n) : Answer(t)

Finish(p) ==
    \/ RecordFailure(p)
    \/ RecordSuccess(p)
    \/ Rollback(p)

NextNaive == \E p \in Proc : Naive(p) \/ RecordFailure(p) \/ RecordSuccess(p)
NextLocked == \E p \in Proc : Locked(p) \/ Finish(p)
NextGated == \E p \in Proc : Gated(p) \/ Finish(p)
NextSafe == \E p \in Proc : Locked(p) \/ Gated(p) \/ Finish(p)

Next ==
    \/ \E p \in Proc : Naive(p) \/ Locked(p) \/ Gated(p) \/ Finish(p)
    \/ AdminStart \/ Reset \/ SyncRedis
\* Gated purchases, /reset and /sync-redis.
NextCache ==
    \/ \E p \in Proc : Gated(p) \/ Finish(p)
    \/ AdminStart \/ Reset \/ SyncRedis

\* The operator calls /reset and /sync-redis only while no purchase is in
\* flight, and no purchase arrives while such a call runs.
AdminStartQuiescent == AdminStartUpTo(MaxQuiescentAdminOps)
NextQuiescent ==
    \/ \E p \in Proc : adminPc = "idle" /\ Naive(p)
    \/ \E p \in Proc : adminPc = "idle" /\ Locked(p)
    \/ \E p \in Proc : adminPc = "idle" /\ Gated(p)
    \/ \E p \in Proc : adminPc = "idle" /\ Finish(p)
    \/ NoAttemptInFlight /\ AdminStartQuiescent
    \/ NoAttemptInFlight /\ Reset
    \/ NoAttemptInFlight /\ SyncRedis

\* PurchaseRedisPostgres, with /reset and /sync-redis called between the
\* purchases only.
NextGatedQuiescent ==
    \/ \E p \in Proc : adminPc = "idle" /\ Gated(p)
    \/ \E p \in Proc : adminPc = "idle" /\ Finish(p)
    \/ NoAttemptInFlight /\ AdminStartQuiescent
    \/ NoAttemptInFlight /\ Reset
    \/ NoAttemptInFlight /\ SyncRedis

\* The dashboard drives PurchaseNaive and reports once every request of the
\* run has been answered.
NextNaiveReport ==
    \/ \E p \in Proc : Naive(p) \/ RecordFailure(p) \/ RecordSuccess(p)
    \/ AllFinished /\ DashboardReport

\* PurchaseRedisPostgres when no round trip fails.
NextScenarioC ==
    \E p \in Proc :
        \/ GateStart(p) \/ GateEval(p) \/ GateBegin(p) \/ GateUpdate(p)
        \/ GateInsert(p) \/ GateCommit(p)
        \/ RecordFailure(p) \/ RecordSuccess(p)

\* ------------------------------------------------------------------ main()
\* database.ConnectDB(): log.Fatalf when the pool cannot be made or pinged.
ConnectDB ==
    /\ boot.pc = "ConnectDB"
    /\ \E ok \in Outcomes :
        boot' = [boot EXCEPT !.pc = IF ok THEN "CreateTables" ELSE "exited"]
    /\ UNCHANGED <<ledger, redis, stats, locals, history, admin, scenario, harness,
                   twin, snapshot, beforeReset>>

\* database.CreateTables(): CREATE TABLE IF NOT EXISTS ...; log.Fatalf on error.
CreateTables ==
    /\ boot.pc = "CreateTables"
    /\ \E ok \in Outcomes :
        boot' = [boot EXCEPT !.pc = IF ok THEN "SeedCount" ELSE "exited"]
    /\ UNCHANGED <<ledger, redis, stats, locals, history, admin, scenario, harness,
                   twin, snapshot, beforeReset>>

\* SeedDatabase: SELECT COUNT(*) FROM products; return on error or count > 0.
SeedCount ==
    /\ boot.pc = "SeedCount"
    /\ \E ok \in Outcomes :
        boot' = [boot EXCEPT !.pc = IF ok /\ boot.products = 0 THEN "SeedUser"
                                     ELSE "ConnectRedis"]
    /\ UNCHANGED <<ledger, redis, stats, locals, history, admin, scenario, harness,
                   twin, snapshot, beforeReset>>

\* INSERT INTO users ...: an error is logged and the seed goes on.
SeedUser ==
    /\ boot.pc = "SeedUser"
    /\ boot' = [boot EXCEPT !.pc = "SeedProduct"]
    /\ UNCHANGED <<ledger, redis, stats, locals, history, admin, scenario, harness,
                   twin, snapshot, beforeReset>>

\* INSERT INTO products (..., quantity) VALUES (..., 100): an error is logged
\* and the seed goes on.
SeedProduct ==
    /\ boot.pc = "SeedProduct"
    /\ \E ok \in Outcomes :
        IF ok
        THEN /\ quantity' = InitialCapacity
             /\ boot' = [boot EXCEPT !.pc = "SeedRedis", !.products = 1]
        ELSE /\ boot' = [boot EXCEPT !.pc = "SeedRedis"]
             /\ UNCHANGED quantity
    /\ UNCHANGED <<orders, rowLock, redis, stats, locals, history, admin, scenario,
                   harness, twin, snapshot, beforeReset>>

\* Rdb.Set(ctx, "product:1:stock", 100, 0): a nil pointer dereference when
\* database.Rdb is still nil (the process panics); else an error is logged.
SeedRedis ==
    /\ boot.pc = "SeedRedis"
    /\ IF ~boot.rdb
       THEN boot' = [boot EXCEPT !.pc = "panicked"] /\ UNCHANGED redis
       ELSE /\ boot' = [boot EXCEPT !.pc = "ConnectRedis"]
            /\ \E ok \in Outcomes :
                redis' = IF ok THEN RedisSet(StockKey, InitialCapacity) ELSE redis
    /\ UNCHANGED <<ledger, stats, locals, history, admin, scenario, harness,
                   twin, snapshot, beforeReset>>

\* database.ConnectRedis(): Rdb = redis.NewClient(...); Ping; log.Fatalf on
\* error; then main() registers the routes and serves.
ConnectRedis ==
    /\ boot.pc = "ConnectRedis"
    /\ \E ok \in Outcomes :
        boot' = [boot EXCEPT !.pc = IF ok THEN "serving" ELSE "exited",
                             !.rdb = TRUE]
    /\ UNCHANGED <<ledger, redis, stats, locals, history, admin, scenario, harness,
                   twin, snapshot, beforeReset>>

\* The process has ended and is started again; the stores keep their data.
Restart ==
    /\ boot.pc \in {"exited", "panicked"} /\ boot.starts < MaxStarts
    /\ boot' = [boot EXCEPT !.pc = "ConnectDB", !.rdb = FALSE, !.starts = @ + 1]
    /\ UNCHANGED <<ledger, redis, stats, locals, history, admin, scenario, harness,
                   twin, snapshot, beforeReset>>

\* main() up to r.Run, then PurchaseRedisPostgres on the seeded product.
NextStartup ==
    \/ ConnectDB \/ CreateTables
    \/ SeedCount \/ SeedUser \/ SeedProduct \/ SeedRedis
    \/ ConnectRedis \/ Restart
    \/ \E p \in Proc : boot.pc = "serving" /\ boot.products > 0 /\ Gated(p)
    \/ \E p \in Proc : boot.pc = "serving" /\ boot.products > 0 /\ Finish(p)

\* ---------------------------------------------------------------- GetStats
\* GET /stats reaches handlers.GetStats: total := atomic.LoadInt64(...)
StatsLoadTotal ==
    /\ snapshot.pc = "idle" /\ snapshot.calls < MaxSnapshots
    /\ snapshot' = [snapshot EXCEPT !.pc = "success", !.total = TotalRequests,
                                    !.calls = @ + 1]
    /\ UNCHANGED <<ledger, redis, stats, locals, history, admin, scenario, harness, twin, boot, beforeReset>>

StatsLoadSuccess ==
    /\ snapshot.pc = "success"
    /\ snapshot' = [snapshot EXCEPT !.pc = "fail", !.success = SuccessCount]
    /\ UNCHANGED <<ledger, redis, stats, locals, history, admin, scenario, harness, twin, boot, beforeReset>>

StatsLoadFail ==
    /\ snapshot.pc = "fail"
    /\ snapshot' = [snapshot EXCEPT !.pc = "oversell", !.fail = FailCount]
    /\ UNCHANGED <<ledger, redis, stats, locals, history, admin, scenario, harness, twin, boot, beforeReset>>

StatsLoadOversell ==
    /\ snapshot.pc = "oversell"
    /\ snapshot' = [snapshot EXCEPT !.pc = "latency", !.oversell = OversellCount]
    /\ UNCHANGED <<ledger, redis, stats, locals, history, admin, scenario, harness, twin, boot, beforeReset>>

StatsLoadLatency ==
    /\ snapshot.pc = "latency"
    /\ snapshot' = [snapshot EXCEPT !.pc = "return", !.latency = TotalLatencyMs]
    /\ UNCHANGED <<ledger, redis, stats, locals, history, admin, scenario, harness, twin, boot, beforeReset>>

\* The average is computed from the loaded values and the map is returned.
StatsReturn ==
    /\ snapshot.pc = "return"
    /\ snapshot' = [snapshot EXCEPT !.pc = "idle",
                        !.avg = AvgLatency(snapshot.total, snapshot.latency)]
    /\ UNCHANGED <<ledger, redis, stats, locals, history, admin, scenario, harness, twin, boot, beforeReset>>

GetStats ==
    \/ StatsLoadTotal \/ StatsLoadSuccess \/ StatsLoadFail
    \/ StatsLoadOversell \/ StatsLoadLatency \/ StatsReturn

\* PurchaseNaive moves the counters while GET /stats is called.
NextStats ==
    \/ \E p \in Proc : Naive(p) \/ RecordFailure(p) \/ RecordSuccess(p)
    \/ GetStats

\* PurchaseNaive, called by a harness that keeps at most harness.c requests
\* in flight.
NextNaiveBatched ==
    \/ \E p \in Proc : Cardinality(Running) < harness.c /\ NaiveStart(p)
    \/ \E p \in Proc : NaiveSelect(p) \/ NaiveUpdate(p) \/ NaiveInsert(p)
    \/ \E p \in Proc : RecordFailure(p) \/ RecordSuccess(p)

\* PurchaseRedisPostgres when every compensating INCR reaches Redis (any
\* other round trip may fail).
NextGatedCompensated ==
    \/ \E p \in Proc : GateStart(p) \/ GateEval(p) \/ GateBegin(p)
    \/ \E p \in Proc : GateUpdate(p) \/ GateInsert(p) \/ GateCommit(p)
    \/ \E p \in Proc : GateCompensate(p) /\ redis' # redis
    \/ \E p \in Proc : Finish(p)

\* PurchaseRedisPostgres and POST /sync-redis, at any time.
NextGatedSync ==
    \/ \E p \in Proc : Gated(p) \/ Finish(p)
    \/ AdminStart /\ adminPc' = "s_select"
    \/ SyncRedis

\* One POST /reset while PurchasePostgresLock and PurchaseRedisPostgres
\* requests that arrived before it are handled.
NextSafeReset ==
    \/ \E p \in Proc : adminOps = 0 /\ LockStart(p)
    \/ \E p \in Proc : adminOps = 0 /\ GateStart(p)
    \/ \E p \in Proc : LockBegin(p) \/ LockSelect(p) \/ LockUpdate(p)
    \/ \E p \in Proc : LockInsert(p) \/ LockCommit(p)
    \/ \E p \in Proc : GateEval(p) \/ GateBegin(p) \/ GateUpdate(p)
    \/ \E p \in Proc : GateInsert(p) \/ GateCommit(p) \/ GateCompensate(p)
    \/ \E p \in Proc : Finish(p)
    \/ AdminStart /\ adminPc' = "r_update"
    \/ Reset

\* One step of a purchase handler.
PurchaseStep == \E p \in Proc : Naive(p) \/ Locked(p) \/ Gated(p) \/ Finish(p)

\* One run takes a step of the schedule.
Lead == twin.phase = "lead" /\ Shared = twin.pre /\ PurchaseStep

\* The other run is brought to the state the step was taken in, with its
\* own stats counters.
Rewind ==
    /\ twin.phase = "lead" /\ Shared # twin.pre
    /\ quantity' = twin.pre[1] /\ orders' = twin.pre[2]
    /\ rowLock' = twin.pre[3] /\ redis' = twin.pre[4]
    /\ pc' = twin.pre[5] /\ mode' = twin.pre[6] /\ req' = twin.pre[7]
    /\ qty' = twin.pre[8] /\ stock' = twin.pre[9] /\ tx' = twin.pre[10]
    /\ err' = twin.pre[11] /\ trace' = twin.pre[12]
    /\ readLog' = twin.pre[13] /\ started' = twin.pre[14]
    /\ TotalRequests' = twin.other[1] /\ SuccessCount' = twin.other[2]
    /\ FailCount' = twin.other[3] /\ OversellCount' = twin.other[4]
    /\ TotalLatencyMs' = twin.other[5]
    /\ twin' = [phase |-> "follow", pre |-> twin.pre, target |-> Shared,
                other |-> stats]
    /\ UNCHANGED <<afterReset, admin, scenario, harness, snapshot, boot, beforeReset>>

\* The other run takes the same step of the schedule: the same handler
\* moves, with the same answers of the stores.
Follow ==
    /\ twin.phase = "follow" /\ Shared = twin.pre
    /\ PurchaseStep
    /\ Shared' = twin.target

\* Both runs have taken the step; the schedule goes on.
Resume ==
    /\ twin.phase = "follow" /\ Shared = twin.target
    /\ twin' = [phase |-> "lead", pre |-> Shared, target |-> <<>>,
                other |-> twin.other]
    /\ UNCHANGED <<ledger, redis, stats, locals, history, admin, scenario, harness,
                   snapshot, boot, beforeReset>>

NextTwin == Lead \/ Rewind \/ Follow \/ Resume

\* Every route, from the state start-up leaves.
Spec == Init /\ [][Next]_vars
\* PurchaseRedisPostgres, /reset and /sync-redis, from the state start-up leaves.
SpecCache == Init /\ [][NextCache]_vars
\* Only PurchaseNaive is called, from the reset state.
SpecNaive == InitReset /\ [][NextNaive]_vars
\* Only PurchasePostgresLock is called, from the reset state.
SpecLocked == InitReset /\ [][NextLocked]_vars
\* Only PurchaseRedisPostgres is called, from the reset state.
SpecGated == InitReset /\ [][NextGated]_vars
\* Only PurchaseRedisPostgres is called, from the state start-up leaves
\* (the Redis key seeded or missing).
SpecGatedStartup == Init /\ [][NextGated]_vars
\* PurchasePostgresLock and PurchaseRedisPostgres in any mix.
SpecSafe == InitReset /\ [][NextSafe]_vars

\* Every route, /reset and /sync-redis called between the purchases only.
SpecQuiescent == Init /\ [][NextQuiescent]_vars

\* Only PurchaseRedisPostgres is called, from the reset state, /reset and
\* /sync-redis between the purchases only.
SpecGatedQuiescent == InitReset /\ [][NextGatedQuiescent]_vars

\* A dashboard run against PurchaseNaive, from the reset state, to its report.
SpecNaiveReport == InitReset /\ [][NextNaiveReport]_vars

\* A load-harness run: the dashboard's runAttack or scripts/attack.go.
SpecHarness == InitHarness /\ [][NextHarness]_vars

\* Scenario B: the load harness calls PurchasePostgresLock only, from the
\* reset state, and no store round trip fails.
SpecScenarioB == InitScenario /\ [][NextLocked]_vars
\* Scenario C: the same with PurchaseRedisPostgres (with no failing round
\* trip the compensation and the deferred rollback have nothing to do).
SpecScenarioC == InitScenario /\ [][NextScenarioC]_vars

\* ==================================================================== claims
\* "oversold" as the load harness computes it from the order count.
Oversold == IF Len(orders) > InitialCapacity THEN Len(orders) - InitialCapacity ELSE 0

\* C1: with only Pessimistic-Locked attempts from the reset state, every
\* committed ledger state has quantity >= 0 and at most initialCapacity order
\* rows, so oversold = 0.
C1_LockedNeverOversells ==
    /\ quantity >= 0
    /\ Len(orders) <= InitialCapacity
    /\ Oversold = 0

\* C1 witness: the stock is sold out and a further locked attempt read 0
\* under the lock and is being rejected.
C1_Witness ==
    /\ quantity = 0
    /\ Len(orders) = InitialCapacity
    /\ \E p \in Proc : /\ mode[p] = "postgres_lock" /\ pc[p] = "fail"
                       /\ err[p] = "Out of stock!" /\ qty[p] = 0

\* C2: with only Cache-Gated attempts from cache = ledger = initialCapacity
\* (faults and compensation included, no reset or sync), every committed
\* ledger state has quantity >= 0 and at most initialCapacity order rows.
C2_GatedNeverOversells ==
    /\ quantity >= 0
    /\ Len(orders) <= InitialCapacity
    /\ Oversold = 0
    /\ HasKey(StockKey)

\* C2 witness: the stock is sold out and the gate has turned an attempt away.
C2_Witness ==
    /\ quantity = 0
    /\ Len(orders) = InitialCapacity
    /\ redis[StockKey] = 0
    /\ \E p \in Proc : /\ mode[p] = "redis_postgres" /\ pc[p] = "fail"
                       /\ err[p] = "Out of stock!" /\ stock[p] = -1

\* C3 (as claimed): with Pessimistic-Locked and Cache-Gated attempts in any
\* mix from the reset state, the ledger quantity is >= 0 at every commit point.
C3_MixedQuantityNonNegative == quantity >= 0

\* C4: under the locked and gated strategies the order row is created in the
\* unit of work of the decrement: every committed ledger state has
\* quantity = initialCapacity - (number of order rows), also when attempts
\* fail at the decrement, the order insert or the commit.
C4_QuantityMatchesOrders == quantity = InitialCapacity - Len(orders)

\* C4 witness: one unit committed a decrement with its order row, and another
\* unit that had decremented and inserted failed at its commit.
C4_Witness ==
    /\ Len(orders) >= 1
    /\ \E p \in Proc : /\ pc[p] \in {"fail", "g_comp"}
                       /\ err[p] = "Commit failed"
                       /\ trace[p].ldec = 1 /\ trace[p].ins = 1

\* C5: under the Unprotected strategy a decrement leaves the ledger quantity
\* negative only when the attempt making it had read a positive quantity that
\* another attempt decremented in between (two attempts read before either
\* decrements); the oversold state of C5_Witness is reachable.
C5_OversellByStaleRead ==
    [][\A p \in Proc :
          (pc[p] = "n_update" /\ pc'[p] = "n_insert" /\ quantity' < 0)
              => (qty[p] > 0 /\ qty[p] > quantity)]_vars

\* C5 witness: more successful order rows than initialCapacity and a negative
\* ledger quantity.
C5_Witness ==
    /\ Len(orders) > InitialCapacity
    /\ quantity < 0
    /\ Oversold > 0

\* C6: at most one unit of work holds the exclusive lock of the product row,
\* and a locked attempt whose locking read is issued while another unit holds
\* the lock reads the quantity only after the holder committed or rolled back.
C6_RowLockExclusive ==
    /\ [](Cardinality(rowLock) <= 1)
    /\ [](\A p \in Proc : p \in rowLock => tx[p].open)
    /\ [](\A p \in Proc : pc[p] \in {"l_update", "l_insert", "l_commit"} => rowLock = {p})
    /\ [][\A p \in Proc :
            (pc[p] = "l_select" /\ rowLock \ {p} # {})
                => (qty'[p] = qty[p] /\ pc'[p] \in {"l_select", "fail"}
                    /\ (pc'[p] = "fail" => err'[p] = "Lock failed"))]_vars

\* C6 witness: one unit holds the row lock while a locked attempt has issued
\* its locking read and waits.
C6_Witness ==
    \E p, q \in Proc : /\ p # q
                       /\ rowLock = {q}
                       /\ pc[p] = "l_select" /\ tx[p].open

\* C7: under the locked strategy the committed units read the quantity in a
\* total order fixed by the lock, each one a pre-decrement quantity no other
\* committed unit read, and a unit holding the lock sees the committed value.
C7_DistinctLockedReads ==
    /\ \A i, j \in DOMAIN readLog : i < j => readLog[i] > readLog[j]
    /\ \A p \in Proc : pc[p] \in {"l_update", "l_insert", "l_commit"} => qty[p] = quantity

\* C7 witness: two units have committed a decrement.
C7_Witness ==
    /\ Len(readLog) >= 2
    /\ Len(orders) >= 2

GatedOut(p) == mode[p] = "redis_postgres" /\ pc[p] = "fail" /\ stock[p] < 0
Stores == <<quantity, orders, rowLock, redis>>

\* C8: the cache gate is one indivisible test-and-decrement: when the key is
\* present and > 0 it decrements it by exactly 1 and returns the new value
\* (>= 0); otherwise it returns -1 and changes nothing; the key never becomes
\* negative.
C8_GateTestAndDecrement ==
    /\ [][\A p \in Proc :
            (/\ pc[p] = "g_eval" /\ pc'[p] # "g_eval"
             /\ ~(pc'[p] = "fail" /\ err'[p] = "Redis error"))
            => IF HasKey(StockKey) /\ redis[StockKey] > 0
               THEN /\ redis' = [redis EXCEPT ![StockKey] = @ - 1]
                    /\ stock'[p] = redis'[StockKey]
                    /\ stock'[p] >= 0
                    /\ pc'[p] = "g_begin"
               ELSE /\ redis' = redis
                    /\ stock'[p] = -1
                    /\ pc'[p] = "fail"]_vars
    /\ [](HasKey(StockKey) => redis[StockKey] >= 0)

\* C8 witness: two callers are past the gate at once, each holding the value
\* its own decrement returned.
C8_Witness ==
    \E p, q \in Proc : /\ p # q
                       /\ pc[p] = "g_begin" /\ pc[q] = "g_begin"
                       /\ stock[p] = InitialCapacity - 1
                       /\ stock[q] = InitialCapacity - 2
                       /\ redis[StockKey] = InitialCapacity - 2

\* C9: when the gate reports unavailable (key missing or <= 0) the attempt
\* ends with "Out of stock!" and the ledger is never touched: no transaction
\* is opened, and quantity, order rows and the Redis key stay as they were.
C9_GatedOutTouchesNothing ==
    /\ [][\A p \in Proc :
            (pc[p] = "g_eval" /\ stock'[p] < 0)
            => (/\ pc'[p] = "fail" /\ err'[p] = "Out of stock!"
                /\ tx'[p] = NoTx
                /\ UNCHANGED Stores)]_vars
    /\ [](\A p \in Proc :
            GatedOut(p) => (/\ err[p] = "Out of stock!"
                            /\ Response(p) = [code |-> 400, body |-> "Out of stock!"]
                            /\ tx[p] = NoTx
                            /\ trace[p] = NoTrace))
    /\ [][\A p \in Proc :
            (GatedOut(p) /\ pc'[p] # "fail")
            => (/\ pc'[p] = "idle"
                /\ FailCount' = FailCount + 1
                /\ UNCHANGED Stores)]_vars

\* C9 witness: the key is missing and the gate has turned an attempt away.
C9_Witness ==
    /\ ~HasKey(StockKey)
    /\ quantity = InitialCapacity
    /\ \E p \in Proc : GatedOut(p) /\ stock[p] = -1

\* A gated attempt that passed the gate and then failed in the ledger.
FailedAfterGate(p) ==
    mode[p] = "redis_postgres" /\ pc[p] = "fail" /\ trace[p].gate = 1

\* What the steps of a failing gated attempt do to the stores and the stats.
FailedAfterGateSteps ==
    /\ [][\A p \in Proc :
            (pc'[p] = "g_comp" /\ pc[p] # "g_comp")
            => UNCHANGED <<quantity, orders, redis>>]_vars
    /\ [][\A p \in Proc :
            (pc[p] = "g_comp" /\ pc'[p] # "g_comp")
            => (/\ pc'[p] = "fail"
                /\ UNCHANGED <<quantity, orders>>
                /\ \/ redis' = RedisIncr(StockKey) /\ trace'[p].cache = 0
                   \/ redis' = redis /\ trace'[p].cache = -1)]_vars
    /\ [][\A p \in Proc :
            (FailedAfterGate(p) /\ pc'[p] # "fail")
            => (/\ FailCount' = FailCount + 1
                /\ SuccessCount' = SuccessCount
                /\ UNCHANGED <<quantity, orders, redis>>)]_vars
    /\ [][\A p \in Proc :
            (pc[p] = "rollback" /\ pc'[p] # "rollback")
            => UNCHANGED <<quantity, orders, redis>>]_vars

\* C10 (as claimed): a gated attempt that fails in the ledger after the gate
\* issues exactly one compensating increment, so that its net effect on the
\* Redis key is zero, commits nothing and is reported as failed.
C10_CompensationRestoresCache ==
    \A p \in Proc :
        FailedAfterGate(p) => (/\ trace[p].comp = 1
                               /\ trace[p].cache = 0
                               /\ trace[p].commit = 0
                               /\ Response(p).code = 500)

\* C10 (amended): such an attempt issues exactly one compensating increment;
\* its net effect on the Redis key is zero when that INCR is applied and -1
\* when the INCR itself fails (its error is dropped); it commits nothing to
\* the ledger and is reported and counted as failed.
C10_CompensationIssuedOnce ==
    /\ [](\A p \in Proc :
            FailedAfterGate(p) => (/\ trace[p].comp = 1
                                   /\ trace[p].cache \in {-1, 0}
                                   /\ trace[p].commit = 0
                                   /\ Response(p).code = 500))
    /\ FailedAfterGateSteps

\* C10 witness: an attempt decremented and inserted in its transaction,
\* failed at the commit and compensated; the key is back at its value.
C10_Witness ==
    \E p \in Proc : /\ FailedAfterGate(p)
                    /\ err[p] = "Commit failed"
                    /\ trace[p].ldec = 1 /\ trace[p].ins = 1
                    /\ trace[p].comp = 1 /\ trace[p].cache = 0
                    /\ redis[StockKey] = quantity

\* The steps of PurchasePostgresLock after database.DB.Begin succeeded.
LockedInTx == {"l_select", "l_update", "l_insert", "l_commit"}

\* C11: a Pessimistic-Locked attempt that fails at any step after opening its
\* unit of work commits nothing (quantity and order rows are not changed by
\* any of its steps), is counted as failed, and ends with its pending writes
\* discarded and the row lock released.
C11_LockedFailureRollsBack ==
    /\ [](\A p \in Proc :
            (mode[p] = "postgres_lock" /\ pc[p] = "fail")
                => (trace[p].commit = 0 /\ Response(p).code \in {400, 500}))
    /\ [][\A p \in Proc :
            (pc[p] \in LockedInTx /\ pc'[p] \notin {pc[p], "success"})
                => UNCHANGED <<quantity, orders>>]_vars
    /\ [][\A p \in Proc :
            (mode[p] = "postgres_lock" /\ pc[p] = "fail" /\ pc'[p] # "fail")
                => (/\ FailCount' = FailCount + 1
                    /\ SuccessCount' = SuccessCount
                    /\ pc'[p] = (IF tx[p].open THEN "rollback" ELSE "idle")
                    /\ UNCHANGED <<quantity, orders>>)]_vars
    /\ [][\A p \in Proc :
            (pc[p] = "rollback" /\ pc'[p] # "rollback")
                => (/\ pc'[p] = "idle"
                    /\ tx'[p] = NoTx
                    /\ p \notin rowLock'
                    /\ UNCHANGED <<quantity, orders>>)]_vars
    /\ [](\A p \in Proc : pc[p] = "idle" => (p \notin rowLock /\ tx[p] = NoTx))

\* C11 witness: an attempt took the lock, decremented in its transaction,
\* failed at the insert and was counted; its rollback is about to run and
\* the committed ledger is as it was.
C11_Witness ==
    \E p \in Proc : /\ pc[p] = "rollback"
                    /\ p \in rowLock
                    /\ tx[p].dec = 1 /\ tx[p].ord = <<>>
                    /\ FailCount >= 1
                    /\ quantity = InitialCapacity /\ orders = <<>>

\* The messages PurchaseNaive sends when a ledger round trip fails.
NaiveLedgerErrors == {"DB error", "Update failed", "Order failed"}

\* C12: an Unprotected attempt aborted by a ledger failure at any of its
\* steps (quantity read, decrement, order insert) has made no partial state
\* change: it has neither decremented the quantity nor inserted an order row.
C12_NaiveAbortLeavesNoChange ==
    \A p \in Proc :
        (mode[p] = "naive" /\ pc[p] = "fail" /\ err[p] \in NaiveLedgerErrors)
            => (trace[p].ldec = 0 /\ trace[p].ins = 0)

\* An attempt whose body did not bind: 400 "Invalid input".
Rejected(p) == pc[p] = "fail" /\ err[p] = "Invalid input"

\* C13: under every strategy a malformed request is rejected before any
\* store is used: the ledger quantity, the order rows, the row lock and the
\* Redis key are unchanged by the attempt, which only adds 1 to TotalRequests
\* and 1 to FailCount.
C13_ValidationErrorTouchesNothing ==
    /\ [](\A p \in Proc :
            (pc[p] \notin {"idle", "rollback"} /\ ~req[p].valid) => Rejected(p))
    /\ [](\A p \in Proc :
            Rejected(p) => (/\ trace[p] = NoTrace
                            /\ tx[p] = NoTx
                            /\ p \notin rowLock
                            /\ Response(p) = [code |-> 400, body |-> "Invalid input"]))
    /\ [][\A p \in Proc :
            (pc[p] = "idle" /\ pc'[p] # "idle" /\ ~req'[p].valid)
                => (/\ TotalRequests' = TotalRequests + 1
                    /\ UNCHANGED <<SuccessCount, FailCount, OversellCount, TotalLatencyMs>>
                    /\ UNCHANGED Stores)]_vars
    /\ [][\A p \in Proc :
            (Rejected(p) /\ pc'[p] # "fail")
                => (/\ pc'[p] = "idle"
                    /\ FailCount' = FailCount + 1
                    /\ UNCHANGED <<TotalRequests, SuccessCount, OversellCount, TotalLatencyMs>>
                    /\ UNCHANGED Stores)]_vars

\* C13 witness: a locked and a gated attempt are both rejected as malformed,
\* a third rejection is already counted, and the stores hold what they held.
C13_Witness ==
    \E p, q \in Proc : /\ mode[p] = "postgres_lock" /\ Rejected(p)
                       /\ mode[q] = "redis_postgres" /\ Rejected(q)
                       /\ TotalRequests = 3 /\ FailCount = 1 /\ SuccessCount = 0
                       /\ quantity = InitialCapacity /\ orders = <<>>
                       /\ redis = SeededCache

\* C14: a /reset that returns 200 while no purchase is in flight leaves
\* quantity = initial capacity, the Redis key = initial capacity, no order
\* rows and the five stats counters at zero, whatever the state before.
C14_ResetRestoresEverything ==
    [][(adminPc = "r_stats" /\ adminResp' = 200)
        => (/\ quantity' = InitialCapacity
            /\ redis' = SeededCache
            /\ orders' = <<>>
            /\ stats' = <<0, 0, 0, 0, 0>>)]_vars

\* C15: /reset is idempotent: a /reset that returns 200 directly after a
\* /reset that returned 200, with no purchase and no /sync-redis in between,
\* leaves the stores and the stats exactly as the first one left them.
C15_ResetIdempotent ==
    [][(adminPc = "r_stats" /\ adminResp' = 200 /\ afterReset # <<>>)
        => Observable' = afterReset[1]]_vars

\* C16: a /sync-redis that returns 200 while no purchase is in flight leaves
\* the Redis key = max(0, ledger quantity), whatever the key held before
\* (missing, too low, too high), and leaves quantity and order rows as they
\* were.
C16_SyncCopiesClampedQuantity ==
    /\ [](adminPc = "s_set" => adminStock = Max(0, quantity))
    /\ [][(adminPc = "s_set" /\ adminResp' = 200)
            => redis' = [k \in {StockKey} |-> Max(0, quantity')]]_vars
    /\ [][(adminPc \in {"s_select", "s_set"})
            => (quantity' = quantity /\ orders' = orders)]_vars

\* C16 witness: the ledger is oversold (quantity < 0) while the key is still
\* positive, and /sync-redis has read the quantity and is about to set the key.
C16_Witness ==
    /\ adminPc = "s_set"
    /\ NoAttemptInFlight
    /\ quantity < 0
    /\ HasKey(StockKey) /\ redis[StockKey] > 0
    /\ adminStock = 0

\* C17: N >= initial capacity concurrent Pessimistic-Locked attempts from the
\* reset state with no ledger fault: once all have finished, exactly
\* initial-capacity attempts succeeded, the other N - capacity were answered
\* "Out of stock!", and the ledger quantity is 0.
C17_ScenarioBOutcome ==
    /\ \A p \in Proc : pc[p] = "fail" => Response(p) = [code |-> 400, body |-> "Out of stock!"]
    /\ (AllFinished /\ MaxRequests >= InitialCapacity)
        => (/\ SuccessCount = InitialCapacity
            /\ FailCount = MaxRequests - InitialCapacity
            /\ Len(orders) = InitialCapacity
            /\ quantity = 0)

\* C17 witness: the run is over, with more requests than stock, and some
\* were turned away.
C17_Witness ==
    /\ AllFinished
    /\ MaxRequests > InitialCapacity
    /\ TotalRequests = MaxRequests
    /\ FailCount >= 1
    /\ Len(readLog) = InitialCapacity

\* C18: N >= initial capacity concurrent Cache-Gated attempts from the reset
\* state with no store fault: once all have finished there are exactly
\* initial-capacity order rows (and successes), oversold = 0, the Redis key is
\* 0 and the ledger quantity is 0.
C18_ScenarioCOutcome ==
    /\ \A p \in Proc : pc[p] = "fail" => Response(p) = [code |-> 400, body |-> "Out of stock!"]
    /\ (AllFinished /\ MaxRequests >= InitialCapacity)
        => (/\ Len(orders) = InitialCapacity
            /\ SuccessCount = InitialCapacity
            /\ Oversold = 0
            /\ redis = [k \in {StockKey} |-> 0]
            /\ quantity = 0)

\* C18 witness: the run is over, with more requests than stock; the gate
\* turned the surplus away and the key is at 0.
C18_Witness ==
    /\ AllFinished
    /\ MaxRequests > InitialCapacity
    /\ TotalRequests = MaxRequests
    /\ FailCount = MaxRequests - InitialCapacity
    /\ redis[StockKey] = 0

\* Attempts that hold a reservation: past the gate, their transaction not yet
\* committed and their compensation not yet issued.
Reserved ==
    Cardinality({p \in Proc : pc[p] \in {"g_begin", "g_update", "g_insert", "g_commit", "g_comp"}})

\* The Redis key is below the ledger quantity by more than the reservations
\* in flight account for.
Diverged == HasKey(StockKey) /\ redis[StockKey] + Reserved < quantity

InFlight == {t \in Tasks(harness.n) : harness.status[t] = "flying"}

\* The batch a request belongs to when the total is cut into batches of c.
BatchOf(t, c) == (t - 1) \div c

\* C20: in every load-harness run with requested total N and configured
\* concurrency c, at most c requests are in flight at any moment, no request
\* of a later batch is sent before every request of the earlier batches has
\* been answered, and each of the N requests is sent exactly once.
C20_HarnessBatches ==
    /\ Cardinality(InFlight) <= Max(harness.c, 0)
    /\ harness.c >= 1 =>
        \A t, u \in Tasks(harness.n) :
            (BatchOf(t, harness.c) < BatchOf(u, harness.c) /\ harness.status[u] # "new")
                => harness.status[t] = "done"
    /\ \A t \in Tasks(harness.n) :
        /\ harness.sent[t] <= 1
        /\ harness.phase = "done" => harness.sent[t] = 1

\* C21: after all batches the load harness reports
\* oversold = max(0, order rows - initial capacity), computed from the order
\* count re-read from the ledger, in every final ledger state.
C21_ReportedOversold ==
    harness.report # <<>> => harness.report[1] = Max(0, Len(orders) - InitialCapacity)

\* How far a handler has come: every step moves it forward.
Rank(l) ==
    CASE l = "idle" -> 0
      [] l \in {"n_select", "l_begin", "g_eval"} -> 1
      [] l \in {"n_update", "l_select", "g_begin"} -> 2
      [] l \in {"n_insert", "l_update", "g_update"} -> 3
      [] l \in {"l_insert", "g_insert"} -> 4
      [] l \in {"l_commit", "g_commit"} -> 5
      [] l = "g_comp" -> 6
      [] l \in {"success", "fail"} -> 7
      [] l = "rollback" -> 8

\* Only PurchasePostgresLock is called; every handler that can take a step
\* eventually takes one (the Go scheduler runs every goroutine, PostgreSQL
\* answers every statement and grants a released lock to a waiter).
SpecLockedFair ==
    /\ InitReset /\ [][NextLocked]_vars
    /\ \A p \in Proc : WF_vars(Locked(p) \/ Finish(p))

\* A load-harness run in which the harness's loop goes on whenever it can
\* and the server answers every request it was sent.
SpecHarnessFair == InitHarness /\ [][NextHarness]_vars /\ WF_vars(NextHarness)

\* Only PurchaseNaive is called, by at most harness.c clients at a time.
SpecNaiveBatched == InitNaiveBatched /\ [][NextNaiveBatched]_vars

\* Only PurchaseRedisPostgres is called, from the reset state, and no
\* compensating INCR is lost.
SpecGatedCompensated == InitReset /\ [][NextGatedCompensated]_vars

\* PurchaseRedisPostgres and POST /sync-redis, from the reset state.
SpecGatedSync == InitReset /\ [][NextGatedSync]_vars

\* Locked and gated purchases with one POST /reset, from the reset state.
SpecSafeReset == InitReset /\ [][NextSafeReset]_vars

\* Purchases of every strategy and nothing else, from the reset state.
SpecPurchases == InitReset /\ [][PurchaseStep]_vars

\* The server is started on fresh stores, and started again when it ends.
SpecStartup == InitFresh /\ [][NextStartup]_vars

\* PurchaseNaive and GET /stats, from the reset state.
SpecStats == InitReset /\ [][NextStats]_vars

\* Two runs of one schedule of purchases whose stats counters differ.
SpecTwin == InitTwin /\ [][NextTwin]_vars

\* C22: the handlers never retry: an attempt runs each of its steps at most
\* once (at most one gate decrement, one ledger decrement, one order insert,
\* one compensating increment, one commit), also after a fault, and ends in
\* exactly one outcome, counted once as a success or as a failure.
C22_NoRetry ==
    /\ [](\A p \in Proc :
            /\ trace[p].gate <= 1 /\ trace[p].ldec <= 1 /\ trace[p].ins <= 1
            /\ trace[p].comp <= 1 /\ trace[p].commit <= 1)
    /\ [][\A p \in Proc :
            pc'[p] # pc[p] => (pc'[p] = "idle" \/ Rank(pc'[p]) > Rank(pc[p]))]_vars
    /\ [][\A p \in Proc :
            (pc[p] = "fail" /\ pc'[p] # "fail")
                => (FailCount' = FailCount + 1 /\ SuccessCount' = SuccessCount)]_vars
    /\ [][\A p \in Proc :
            (pc[p] = "success" /\ pc'[p] # "success")
                => (SuccessCount' = SuccessCount + 1 /\ FailCount' = FailCount
                    /\ pc'[p] = "idle")]_vars
    /\ [][(\A p \in Proc : pc[p] \notin {"fail", "success"} \/ pc'[p] = pc[p])
            => (adminPc = "r_stats"
                \/ (FailCount' = FailCount /\ SuccessCount' = SuccessCount))]_vars

\* C22 witness: a naive attempt failed at its insert after its one
\* decrement, and a gated attempt failed at its commit after one gate
\* decrement, one ledger decrement, one insert and one compensation.
C22_Witness ==
    \E p, q \in Proc :
        /\ mode[p] = "naive" /\ pc[p] = "fail" /\ err[p] = "Order failed"
        /\ trace[p].ldec = 1 /\ trace[p].ins = 0
        /\ mode[q] = "redis_postgres" /\ pc[q] = "fail" /\ err[q] = "Commit failed"
        /\ trace[q].gate = 1 /\ trace[q].ldec = 1 /\ trace[q].ins = 1
        /\ trace[q].comp = 1

\* C23: the stats counters are only observed: whenever one run has taken a
\* step of a purchase handler, the run with other counter values can take
\* the same step from the same ledger, cache and handler state, and reaches
\* the same ledger, cache, handler positions and responses.
C23_StatsNotRead ==
    (twin.phase = "follow" /\ Shared = twin.pre) => ENABLED Follow

\* C23 witness: the two runs hold different counters and both have gone
\* through an admitted gated purchase and a rejected one.
C23_Witness ==
    /\ twin.phase = "follow" /\ Shared = twin.target
    /\ twin.other # stats
    /\ Len(orders) = InitialCapacity
    /\ \E p \in Proc : mode[p] = "redis_postgres" /\ pc[p] = "fail"
                        /\ err[p] = "Out of stock!"

\* C24: GetStats returns as avg_latency_ms the latency it loaded divided by
\* the total it loaded, and 0 whenever the total it loaded is 0, whatever
\* the counters held when it loaded them.
C24_AvgLatency ==
    (snapshot.calls > 0 /\ snapshot.pc = "idle") =>
        /\ snapshot.avg[2] > 0
        /\ snapshot.total > 0 =>
                snapshot.avg[1] * snapshot.total = snapshot.latency * snapshot.avg[2]
        /\ snapshot.total = 0 => snapshot.avg[1] = 0

\* C24 witness: GetStats has returned an average that is not a whole number.
C24_Witness ==
    /\ snapshot.calls > 0 /\ snapshot.pc = "idle"
    /\ snapshot.total = 2 /\ snapshot.latency = 1

\* C25: the cache connection is established before the seed writes the
\* Redis key, and when the first start on fresh stores has reached r.Run
\* the product row holds the initial capacity and so does product:1:stock.
C25_CacheSeededAtStartup ==
    /\ boot.pc = "SeedRedis" => boot.rdb
    /\ (boot.pc = "serving" /\ boot.starts = 1 /\ started = 0) =>
            /\ boot.products = 1 /\ quantity = InitialCapacity
            /\ HasKey(StockKey) /\ redis[StockKey] = InitialCapacity

\* The cache entry that belongs to product id.
CacheEntryOf(id) == IF id = SeededProductId THEN StockKey ELSE "product:2:stock"

\* What the keyspace r holds under key k.
KeyValue(r, k) == IF k \in DOMAIN r THEN <<r[k]>> ELSE <<>>

\* C26: a step of a gated attempt for product id changes no cache entry but
\* the entry of id, and the attempt decrements the ledger row of the
\* product whose cache entry it passed.
C26_GateScopedToProduct ==
    [][\A p \in Proc :
        (mode[p] = "redis_postgres" /\ req[p].valid /\ pc'[p] # pc[p]) =>
            /\ \A k \in (DOMAIN redis \cup DOMAIN redis')
                        \ {CacheEntryOf(req[p].product_id)} :
                    KeyValue(redis', k) = KeyValue(redis, k)
            /\ pc'[p] = "g_insert" => trace'[p].ldec = trace'[p].gate]_vars

\* C27: a locked attempt always ends: it reaches an outcome and returns,
\* and a handler that has returned holds no row lock, whichever way it left
\* (commit, out of stock, a failure), so a waiter is never left waiting.
C27_LockedTerminates ==
    /\ [](\A p \in Proc : pc[p] = "idle" => p \notin rowLock)
    /\ \A p \in Proc :
        /\ (mode[p] = "postgres_lock" /\ pc[p] = "l_begin")
                ~> (pc[p] \in {"fail", "success"})
        /\ (mode[p] = "postgres_lock" /\ pc[p] # "idle")
                ~> (pc[p] = "idle" /\ p \notin rowLock)

\* C27 witness: one locked attempt waits at SELECT ... FOR UPDATE while
\* another one holds the row lock.
C27_Witness ==
    \E p, q \in Proc :
        /\ p # q /\ mode[p] = "postgres_lock" /\ pc[p] = "l_select"
        /\ q \in rowLock /\ pc[q] \in {"l_update", "l_insert", "l_commit"}

\* C28: whatever the requested total and the configured concurrency, when
\* every request is answered the harness's loop ends and the harness goes
\* on to re-read the ledger state.
C28_HarnessTerminates == <>(harness.phase = "done")

C30_CacheTracksLedger ==
    /\ HasKey(StockKey)
    /\ redis[StockKey] = quantity - Reserved
    /\ redis[StockKey] <= quantity
    /\ NoAttemptInFlight => redis[StockKey] = quantity

\* C30 witness: one attempt failed after the gate and has compensated while
\* another one holds a reservation.
C30_Witness ==
    \E p, q \in Proc :
        /\ pc[p] = "fail" /\ trace[p].comp = 1 /\ trace[p].cache = 0
        /\ pc[q] \in {"g_update", "g_insert", "g_commit"}
        /\ redis[StockKey] = quantity - 1

\* C31: /sync-redis may run while gated attempts are in flight: once the
\* sync and every attempt have finished the Redis key is at most the ledger
\* quantity, and the ledger quantity never goes below 0.
C31_SyncSafeInFlight ==
    /\ (adminOps > 0 /\ adminPc = "idle" /\ NoAttemptInFlight /\ HasKey(StockKey))
            => redis[StockKey] <= quantity
    /\ quantity >= 0

\* C32: /reset may run while locked and gated attempts are in flight: once
\* the reset has answered 200 and every attempt that was in flight has
\* finished, the ledger quantity is the capacity minus the order rows and
\* the Redis key is at most the ledger quantity.
C32_ResetSafeInFlight ==
    (adminOps > 0 /\ adminPc = "idle" /\ adminResp = 200 /\ NoAttemptInFlight) =>
        /\ quantity = InitialCapacity - Len(orders)
        /\ HasKey(StockKey) /\ redis[StockKey] <= quantity

\* C33: a /reset that answers 500, because its UPDATE failed or because its
\* Rdb.Set failed, leaves the ledger quantity, the order rows, the Redis key
\* and the stats counters as they were when the call arrived.
C33_FailedResetChangesNothing ==
    [][(/\ adminPc \in {"r_update", "r_set"} /\ adminPc' = "idle"
        /\ adminResp' = 500 /\ beforeReset # <<>>)
            => Observable' = beforeReset[1]]_vars

\* Handlers that have counted their request and not yet its outcome.
Uncounted == {p \in Proc : pc[p] \notin {"idle", "rollback"}}

\* C34: with no /reset, every attempt adds one to TotalRequests when it
\* starts and one to exactly one of SuccessCount and FailCount when it ends:
\* success + failed <= total always, with equality when no attempt is in
\* flight, and no counter ever decreases.
C34_StatsAccounting ==
    /\ [](/\ TotalRequests = started
          /\ SuccessCount + FailCount = TotalRequests - Cardinality(Uncounted)
          /\ SuccessCount + FailCount <= TotalRequests
          /\ NoAttemptInFlight => SuccessCount + FailCount = TotalRequests)
    /\ [][/\ TotalRequests' >= TotalRequests /\ SuccessCount' >= SuccessCount
          /\ FailCount' >= FailCount /\ OversellCount' >= OversellCount
          /\ TotalLatencyMs' >= TotalLatencyMs]_vars

\* C34 witness: attempts of both outcomes have been counted and none is in
\* flight.
C34_Witness ==
    /\ NoAttemptInFlight
    /\ SuccessCount >= 1 /\ FailCount >= 1
    /\ SuccessCount + FailCount = TotalRequests

\* C35: with no /reset, an attempt is counted as a success only after its
\* order row is committed: SuccessCount never exceeds the number of order
\* rows, and equals it when no attempt is in flight.
C35_SuccessAfterOrderRow ==
    /\ SuccessCount <= Len(orders)
    /\ NoAttemptInFlight => SuccessCount = Len(orders)

\* C35 witness: a committed order row whose attempt has not been counted yet,
\* next to one that has.
C35_Witness ==
    /\ SuccessCount >= 1
    /\ Len(orders) = SuccessCount + 1
    /\ \E p \in Proc : pc[p] = "success"

\* C36: OversellCount is 0 in every state and GET /stats reports
\* oversells = 0, also after PurchaseNaive has written more order rows than
\* the initial capacity.
C36_OversellsNeverCounted ==
    /\ OversellCount = 0
    /\ snapshot.oversell = 0

\* C36 witness: GET /stats has answered after PurchaseNaive counted more
\* successes than the initial capacity.
C36_Witness ==
    /\ Len(orders) > InitialCapacity
    /\ snapshot.calls > 0 /\ snapshot.pc = "idle"
    /\ snapshot.success > InitialCapacity
    /\ snapshot.oversell = 0

=============================================================================
